---- MODULE Spec2Model ----
(***************************************************************************)
(* Model of pagination_api/paginations.py: the three paginator classes     *)
(* DefaultLimitOffsetPagination, DefaultPageNumberPagination and           *)
(* DefaultCursorPagination, their class attributes (the policy) and the    *)
(* methods get_limit / get_page_size that resolve a client-supplied query  *)
(* parameter into a page size.                                             *)
(*                                                                         *)
(* A Python str is a sequence of one-character strings; a query-parameter  *)
(* mapping is a function from parameter names to such sequences.           *)
(***************************************************************************)
EXTENDS Integers, Sequences, FiniteSets

VARIABLES
    LimitOffset,   \* class attributes of DefaultLimitOffsetPagination
    PageNumber,    \* class attributes of DefaultPageNumberPagination
    Cursor,        \* class attributes of DefaultCursorPagination
    pc,            \* per request handler: "idle" or "done"
    call,          \* per request handler: the strategy called and its request
    outcome        \* per request handler: how the call ended

policy == <<LimitOffset, PageNumber, Cursor>>
vars == <<LimitOffset, PageNumber, Cursor, pc, call, outcome>>

(***************************************************************************)
(* Bounds of the model.                                                    *)
(***************************************************************************)
\* longest generated raw query-parameter value, in characters
MaxLen == 2
\* administrator-chosen policy numbers range over 0..MaxVal
MaxVal == 2
\* concurrent request handlers
NumHandlers == 2

Handlers == 1..NumHandlers

(***************************************************************************)
(* Python values.                                                          *)
(***************************************************************************)
\* Python's None, for a query parameter name that is not configured
None == "None"

Digits == {"0", "1", "2", "3", "4", "5", "6", "7", "8", "9"}
Letters == {"a", "b", "c"}
Whitespace == {" "}

\* the characters raw values are generated from
Alphabet == {"0", "1", "2", "-", ".", "a"}

DigitVal(c) ==
    CASE c = "0" -> 0 [] c = "1" -> 1 [] c = "2" -> 2 [] c = "3" -> 3
      [] c = "4" -> 4 [] c = "5" -> 5 [] c = "6" -> 6 [] c = "7" -> 7
      [] c = "8" -> 8 [] c = "9" -> 9

\* str.isalpha(): non-empty and every character a letter
isalpha(s) == Len(s) > 0 /\ \A i \in 1..Len(s) : s[i] \in Letters

RECURSIVE lstrip(_)
lstrip(s) == IF Len(s) > 0 /\ Head(s) \in Whitespace THEN lstrip(Tail(s)) ELSE s

RECURSIVE rstrip(_)
rstrip(s) ==
    IF Len(s) > 0 /\ s[Len(s)] \in Whitespace
    THEN rstrip(SubSeq(s, 1, Len(s) - 1))
    ELSE s

\* the digit part of an integer literal: digits, with single underscores
\* allowed only between two digits
IsDigitPart(d) ==
    /\ Len(d) > 0
    /\ \A i \in 1..Len(d) : d[i] \in Digits \cup {"_"}
    /\ d[1] \in Digits
    /\ d[Len(d)] \in Digits
    /\ \A i \in 1..(Len(d) - 1) : ~(d[i] = "_" /\ d[i + 1] = "_")

RECURSIVE DigitPartValue(_, _)
DigitPartValue(d, acc) ==
    IF Len(d) = 0 THEN acc
    ELSE IF Head(d) = "_" THEN DigitPartValue(Tail(d), acc)
    ELSE DigitPartValue(Tail(d), 10 * acc + DigitVal(Head(d)))

\* faulty variant: a fractional literal is truncated to its integer part, as
\* int(float(s)) would
int_Truncating(s) ==
    LET t == rstrip(lstrip(s))
        dots == {i \in 1..Len(t) : t[i] = "."}
        cut == IF dots = {} THEN t
               ELSE SubSeq(t, 1, (CHOOSE i \in dots : \A j \in dots : i <= j) - 1)
        signed == Len(cut) > 0 /\ cut[1] \in {"-", "+"}
        d == IF signed THEN Tail(cut) ELSE cut
    IN  IF IsDigitPart(d)
        THEN [exc |-> "",
              val |-> IF signed /\ cut[1] = "-"
                      THEN 0 - DigitPartValue(d, 0)
                      ELSE DigitPartValue(d, 0)]
        ELSE [exc |-> "ValueError", val |-> 0]

\* int(s) for a str: surrounding whitespace is stripped, one optional sign,
\* then the digit part; anything else raises ValueError.  Python integers
\* are unbounded, so no literal overflows; CPython's cap on the number of
\* digits of a literal raises ValueError too, the outcome of a malformed one.
int(s) ==
    LET t == rstrip(lstrip(s))
        signed == Len(t) > 0 /\ t[1] \in {"-", "+"}
        d == IF signed THEN Tail(t) ELSE t
    IN  IF IsDigitPart(d)
        THEN [exc |-> "",
              val |-> IF signed /\ t[1] = "-"
                      THEN 0 - DigitPartValue(d, 0)
                      ELSE DigitPartValue(d, 0)]
        ELSE [exc |-> "ValueError", val |-> 0]

min(a, b) == IF a <= b THEN a ELSE b
max(a, b) == IF a >= b THEN a ELSE b

\* QueryDict.get(key): the value as a one-element sequence, <<>> for None
QueryDict_get(query_params, key) ==
    IF key \in DOMAIN query_params THEN <<query_params[key]>> ELSE <<>>

\* truth value of the result of QueryDict.get: None and "" are false
Truthy(got) == Len(got) = 1 /\ Len(got[1]) > 0

(***************************************************************************)
(* How a method body ends.                                                 *)
(***************************************************************************)
Return(v, path) == [kind |-> "return", value |-> v, path |-> path]
Pass(path) == [kind |-> "pass", value |-> 0, path |-> path]
Raise(exc) == [kind |-> "raise", value |-> 0, path |-> exc]

\* faulty variant: the handler catches KeyError alone
Caught_OnlyKeyError == {"KeyError"}

\* except (KeyError, ValueError): pass
Caught == {"KeyError", "ValueError"}

Except(r) == IF r.kind = "raise" /\ r.path \in Caught THEN Pass(r.path) ELSE r

(***************************************************************************)
(* The three resolvers.  self is the record of class attributes, request   *)
(* the record holding the query-parameter mapping.                         *)
(***************************************************************************)
\* truth value of a configured parameter name: None and "" are false
ParamSet(name) == name # None /\ name # ""

\* faulty variant: zero is admitted as an override
IsPositive_AdmitsZero(n) == n >= 0

\* the test "int(value) > 0" that admits a parsed override
IsPositive(n) == n > 0

\* faulty variant: the upper bound is applied before the lower one
limit_clamp_LowerLast(self, n) == max(min(n, self.max_limit), self.min_limit)

\* faulty variant: the lower bound is not applied
limit_clamp_NoLower(self, n) == min(n, self.max_limit)

\* DefaultLimitOffsetPagination.get_limit: the value returned for an
\* admitted override n
limit_clamp(self, n) == min(max(n, self.min_limit), self.max_limit)

\* faulty variant: an invalid override falls back to the minimum
limit_fallback_Minimum(self) == self.min_limit

\* DefaultLimitOffsetPagination.get_limit: the value returned when no valid
\* override is given
limit_fallback(self) == self.default_limit

\* DefaultLimitOffsetPagination.get_limit
get_limit(self, request) ==
    LET got == QueryDict_get(request.query_params, self.limit_query_param)
        limit_value == got[1]
        try ==
            IF isalpha(limit_value) THEN Pass("isalpha")
            ELSE LET n == int(limit_value) IN
                 IF n.exc # "" THEN Raise(n.exc)
                 ELSE IF IsPositive(n.val)
                      THEN Return(limit_clamp(self, n.val), "override")
                      ELSE Pass("nonpositive")
        r == IF ParamSet(self.limit_query_param) /\ Truthy(got)
             THEN Except(try)
             ELSE Pass("absent")
    IN  IF r.kind = "pass" THEN Return(limit_fallback(self), r.path) ELSE r

\* faulty variant: the maximum is not applied
PageNumber_clamp_NoUpper(self, n) == n

\* DefaultPageNumberPagination.get_page_size: the value returned for an
\* admitted override n
PageNumber_clamp(self, n) == min(n, self.max_page_size)

\* DefaultPageNumberPagination.get_page_size
PageNumber_get_page_size(self, request) ==
    LET got == QueryDict_get(request.query_params, self.page_size_query_param)
        page_size_value == got[1]
        try ==
            IF isalpha(page_size_value) THEN Pass("isalpha")
            ELSE LET n == int(page_size_value) IN
                 IF n.exc # "" THEN Raise(n.exc)
                 ELSE IF IsPositive(n.val)
                      THEN Return(PageNumber_clamp(self, n.val), "override")
                      ELSE Pass("nonpositive")
        r == IF ParamSet(self.page_size_query_param) /\ Truthy(got)
             THEN Except(try)
             ELSE Pass("absent")
    IN  IF r.kind = "pass" THEN Return(self.page_size, r.path) ELSE r

\* faulty variant: the override is raised to the default page size
Cursor_clamp_RaisedToDefault(self, n) == min(max(n, self.page_size), self.max_page_size)

\* DefaultCursorPagination.get_page_size: the value returned for an admitted
\* override n
Cursor_clamp(self, n) == min(n, self.max_page_size)

\* DefaultCursorPagination.get_page_size
Cursor_get_page_size(self, request) ==
    LET got == QueryDict_get(request.query_params, self.page_size_query_param)
        page_size_value == got[1]
        try ==
            IF isalpha(page_size_value) THEN Pass("isalpha")
            ELSE LET n == int(page_size_value) IN
                 IF n.exc # "" THEN Raise(n.exc)
                 ELSE IF IsPositive(n.val)
                      THEN Return(Cursor_clamp(self, n.val), "override")
                      ELSE Pass("nonpositive")
        r == IF ParamSet(self.page_size_query_param) /\ Truthy(got)
             THEN Except(try)
             ELSE Pass("absent")
    IN  IF r.kind = "pass" THEN Return(self.page_size, r.path) ELSE r

(***************************************************************************)
(* Policies and requests the model draws from.                             *)
(***************************************************************************)
\* the class attributes as written in the source
min_limit == 1
max_limit == 100
default_limit == 10
page_size == 10
max_page_size == 100
ordering == "-id"

\* one administrator configuration: whether clients may override the size,
\* and the bounds; the three classes are configured from it
SourceConfig ==
    [enabled |-> TRUE, min |-> min_limit, max |-> max_limit, default |-> default_limit]

Configs ==
    {SourceConfig} \cup
    [enabled : BOOLEAN, min : 0..MaxVal, max : 0..MaxVal, default : 0..MaxVal]

\* every str of at most n characters over the alphabet
Strings(n) == UNION {[1..k -> Alphabet] : k \in 0..n}

\* the raw values named by the documentation's examples, and values that
\* exercise what int() accepts besides digits: surrounding whitespace, a
\* plus sign, an underscore between digits
Examples ==
    { <<"5", "0">>, <<"9", "9", "9", "9">>, <<"a", "b", "c">>,
      <<"-", "5">>, <<"0", ".", "5">>,
      <<" ", "2", " ">>, <<"+", "2">>, <<"1", "_", "0">>, <<"_", "1">>,
      <<"-", " ", "1">>, <<" ">> }

RawInputs == Strings(MaxLen) \cup Examples

\* the raw values of the concurrent specification
ConcRawInputs == { <<"0">>, <<"1">>, <<"9", "9", "9", "9">> }

ParamNames == {"limit", "page_size"}

\* a request carries no query parameter, or one parameter with a raw value
Requests(raws) ==
    { [query_params |-> [k \in {} |-> <<>>]] } \cup
    { [query_params |-> [k \in {name} |-> s]] : name \in ParamNames, s \in raws }

AllRequests == Requests(RawInputs)
ConcRequests == Requests(ConcRawInputs)

NoCall == [strategy |-> "none", request |-> [query_params |-> [k \in {} |-> <<>>]]]
NoOutcome == [kind |-> "none", value |-> 0, path |-> ""]

Init ==
    /\ \E cfg \in Configs :
        /\ LimitOffset =
              [limit_query_param |-> IF cfg.enabled THEN "limit" ELSE None,
               min_limit |-> cfg.min,
               max_limit |-> cfg.max,
               default_limit |-> cfg.default]
        /\ PageNumber =
              [page_size_query_param |-> IF cfg.enabled THEN "page_size" ELSE None,
               page_size |-> cfg.default,
               max_page_size |-> cfg.max]
        /\ Cursor =
              [page_size_query_param |-> IF cfg.enabled THEN "page_size" ELSE None,
               page_size |-> cfg.default,
               max_page_size |-> cfg.max,
               ordering |-> ordering]
    /\ pc = [h \in Handlers |-> "idle"]
    /\ call = [h \in Handlers |-> NoCall]
    /\ outcome = [h \in Handlers |-> NoOutcome]

(***************************************************************************)
(* Actions: a request handler calls one resolver on its request; later the *)
(* response is sent and the per-request result is discarded.               *)
(***************************************************************************)
\* faulty variant: get_limit keeps the resolved limit as the new default_limit
CallGetLimit_KeepsLimit(h, request) ==
    /\ pc[h] = "idle"
    /\ call' = [call EXCEPT ![h] = [strategy |-> "offset", request |-> request]]
    /\ outcome' = [outcome EXCEPT ![h] = get_limit(LimitOffset, request)]
    /\ pc' = [pc EXCEPT ![h] = "done"]
    /\ LimitOffset' =
          [LimitOffset EXCEPT !.default_limit = get_limit(LimitOffset, request).value]
    /\ UNCHANGED <<PageNumber, Cursor>>

CallGetLimit(h, request) ==
    /\ pc[h] = "idle"
    /\ call' = [call EXCEPT ![h] = [strategy |-> "offset", request |-> request]]
    /\ outcome' = [outcome EXCEPT ![h] = get_limit(LimitOffset, request)]
    /\ pc' = [pc EXCEPT ![h] = "done"]
    /\ UNCHANGED policy

CallPageNumberGetPageSize(h, request) ==
    /\ pc[h] = "idle"
    /\ call' = [call EXCEPT ![h] = [strategy |-> "page_number", request |-> request]]
    /\ outcome' = [outcome EXCEPT ![h] = PageNumber_get_page_size(PageNumber, request)]
    /\ pc' = [pc EXCEPT ![h] = "done"]
    /\ UNCHANGED policy

\* faulty variant: get_page_size stores the resolved size in self.page_size
CallCursorGetPageSize_StoresPageSize(h, request) ==
    /\ pc[h] = "idle"
    /\ call' = [call EXCEPT ![h] = [strategy |-> "cursor", request |-> request]]
    /\ outcome' = [outcome EXCEPT ![h] = Cursor_get_page_size(Cursor, request)]
    /\ pc' = [pc EXCEPT ![h] = "done"]
    /\ Cursor' = [Cursor EXCEPT !.page_size = Cursor_get_page_size(Cursor, request).value]
    /\ UNCHANGED <<LimitOffset, PageNumber>>

CallCursorGetPageSize(h, request) ==
    /\ pc[h] = "idle"
    /\ call' = [call EXCEPT ![h] = [strategy |-> "cursor", request |-> request]]
    /\ outcome' = [outcome EXCEPT ![h] = Cursor_get_page_size(Cursor, request)]
    /\ pc' = [pc EXCEPT ![h] = "done"]
    /\ UNCHANGED policy

Finish(h) ==
    /\ pc[h] = "done"
    /\ pc' = [pc EXCEPT ![h] = "idle"]
    /\ call' = [call EXCEPT ![h] = NoCall]
    /\ outcome' = [outcome EXCEPT ![h] = NoOutcome]
    /\ UNCHANGED policy

\* one request handler, every raw input
Next ==
    \/ \E request \in AllRequests : CallGetLimit(1, request)
    \/ \E request \in AllRequests : CallPageNumberGetPageSize(1, request)
    \/ \E request \in AllRequests : CallCursorGetPageSize(1, request)
    \/ Finish(1)

Spec == Init /\ [][Next]_vars

\* concurrent request handlers, interleaved in any order
NextConc ==
    \/ \E h \in Handlers, request \in ConcRequests : CallGetLimit(h, request)
    \/ \E h \in Handlers, request \in ConcRequests :
          CallPageNumberGetPageSize(h, request)
    \/ \E h \in Handlers, request \in ConcRequests :
          CallCursorGetPageSize(h, request)
    \/ \E h \in Handlers : Finish(h)

SpecConc == Init /\ [][NextConc]_vars

(***************************************************************************)
(* Vocabulary of the properties.                                           *)
(***************************************************************************)
Done(h) == pc[h] = "done"
Strategy(h) == call[h].strategy
QueryParams(h) == call[h].request.query_params

\* the policy of the strategy handler h called
ParamName(h) ==
    CASE Strategy(h) = "offset" -> LimitOffset.limit_query_param
      [] Strategy(h) = "page_number" -> PageNumber.page_size_query_param
      [] Strategy(h) = "cursor" -> Cursor.page_size_query_param

DefaultOf(h) ==
    CASE Strategy(h) = "offset" -> LimitOffset.default_limit
      [] Strategy(h) = "page_number" -> PageNumber.page_size
      [] Strategy(h) = "cursor" -> Cursor.page_size

MaximumOf(h) ==
    CASE Strategy(h) = "offset" -> LimitOffset.max_limit
      [] Strategy(h) = "page_number" -> PageNumber.max_page_size
      [] Strategy(h) = "cursor" -> Cursor.max_page_size

\* the floor the strategy promises: min_limit, or 1 where there is none
FloorOf(h) == IF Strategy(h) = "offset" THEN LimitOffset.min_limit ELSE 1

\* the configuration invariants of the policy of the strategy h called
ValidPolicy(h) ==
    /\ FloorOf(h) >= 1
    /\ FloorOf(h) <= MaximumOf(h)
    /\ FloorOf(h) <= DefaultOf(h)
    /\ DefaultOf(h) <= MaximumOf(h)

\* overriding is enabled and the request carries a non-empty value under
\* the configured parameter name
Supplied(h) ==
    /\ ParamSet(ParamName(h))
    /\ ParamName(h) \in DOMAIN QueryParams(h)
    /\ QueryParams(h)[ParamName(h)] # <<>>

RawValue(h) == QueryParams(h)[ParamName(h)]

\* s is a base-10 integer literal of the host platform: optional
\* surrounding whitespace, one optional sign, digits
IsIntegerLiteral(s) ==
    LET t == rstrip(lstrip(s))
    IN  IsDigitPart(IF Len(t) > 0 /\ t[1] \in {"-", "+"} THEN Tail(t) ELSE t)

\* the policy is the one written in the source
SourcePolicy ==
    /\ LimitOffset = [limit_query_param |-> "limit", min_limit |-> min_limit,
                      max_limit |-> max_limit, default_limit |-> default_limit]
    /\ PageNumber = [page_size_query_param |-> "page_size", page_size |-> page_size,
                     max_page_size |-> max_page_size]
    /\ Cursor = [page_size_query_param |-> "page_size", page_size |-> page_size,
                 max_page_size |-> max_page_size, ordering |-> ordering]

(***************************************************************************)
(* C1: under a policy that satisfies the configuration invariants          *)
(* (1 <= min <= default <= max), every resolution returns a size within    *)
(* the policy's bounds: min_limit <= r <= max_limit for get_limit,         *)
(* 1 <= r <= max_page_size for both get_page_size methods.                 *)
(***************************************************************************)
C1_ResultWithinBounds ==
    \A h \in Handlers :
        Done(h) /\ ValidPolicy(h) =>
            /\ outcome[h].kind = "return"
            /\ FloorOf(h) <= outcome[h].value
            /\ outcome[h].value <= MaximumOf(h)

\* a page-number override above the maximum, resolved to the maximum
C1_Witness ==
    \E h \in Handlers :
        /\ Done(h) /\ ValidPolicy(h) /\ Strategy(h) = "page_number"
        /\ Supplied(h) /\ int(RawValue(h)).exc = ""
        /\ int(RawValue(h)).val > PageNumber.max_page_size
        /\ outcome[h].value = PageNumber.max_page_size

(***************************************************************************)
(* C2: every call of get_limit and of both get_page_size methods ends by   *)
(* returning, never by raising, whatever the raw value is.                 *)
(***************************************************************************)
C2_NeverRaises == \A h \in Handlers : Done(h) => outcome[h].kind = "return"

\* int() raised ValueError on the raw value and the call still returned
C2_Witness ==
    \E h \in Handlers :
        /\ Done(h) /\ Supplied(h)
        /\ int(RawValue(h)).exc = "ValueError"
        /\ outcome[h].path = "ValueError"
        /\ outcome[h].kind = "return"

(***************************************************************************)
(* C3: when the parameter name is not configured, or the key is absent     *)
(* from the request, or its value is the empty string, the resolver        *)
(* returns exactly the policy's default, whatever min and max are.         *)
(***************************************************************************)
C3_AbsentGivesDefault ==
    \A h \in Handlers :
        Done(h) /\ ~Supplied(h) =>
            /\ outcome[h].kind = "return"
            /\ outcome[h].value = DefaultOf(h)

\* get_limit on a request whose limit is the empty string, under a policy
\* whose default lies below min_limit
C3_Witness ==
    \E h \in Handlers :
        /\ Done(h) /\ Strategy(h) = "offset"
        /\ "limit" \in DOMAIN QueryParams(h) /\ QueryParams(h)["limit"] = <<>>
        /\ LimitOffset.limit_query_param = "limit"
        /\ LimitOffset.default_limit < LimitOffset.min_limit
        /\ outcome[h].value = LimitOffset.default_limit

(***************************************************************************)
(* C4: a raw value that parses to a positive integer v is clamped, not     *)
(* rejected: get_limit returns min(max(v, min_limit), max_limit), the      *)
(* get_page_size methods return min(v, max_page_size); with the source's   *)
(* policy (1, 100, 10), "50" gives 50 and "9999" gives 100.                *)
(***************************************************************************)
C4_PositiveIsClamped ==
    \A h \in Handlers :
        Done(h) /\ Supplied(h) /\ int(RawValue(h)).exc = "" /\ int(RawValue(h)).val > 0 =>
            LET v == int(RawValue(h)).val IN
            /\ outcome[h].kind = "return"
            /\ outcome[h].path = "override"
            /\ outcome[h].value =
                  IF Strategy(h) = "offset"
                  THEN min(max(v, LimitOffset.min_limit), LimitOffset.max_limit)
                  ELSE min(v, MaximumOf(h))
            /\ FloorOf(h) <= v /\ v <= MaximumOf(h) => outcome[h].value = v
            /\ v > MaximumOf(h) => outcome[h].value = MaximumOf(h)
            /\ SourcePolicy /\ RawValue(h) = <<"5", "0">> => outcome[h].value = 50
            /\ SourcePolicy /\ RawValue(h) = <<"9", "9", "9", "9">> =>
                  outcome[h].value = 100

\* get_limit under the source's policy: "9999" resolved to 100, not to 10
C4_Witness ==
    \E h \in Handlers :
        /\ Done(h) /\ SourcePolicy /\ Strategy(h) = "offset" /\ Supplied(h)
        /\ RawValue(h) = <<"9", "9", "9", "9">>
        /\ outcome[h].value = 100

(***************************************************************************)
(* C5: a raw value that parses to an integer <= 0 yields the policy's      *)
(* default; it is never clamped up to min_limit or to 1.                   *)
(***************************************************************************)
C5_NonPositiveGivesDefault ==
    \A h \in Handlers :
        Done(h) /\ Supplied(h) /\ int(RawValue(h)).exc = "" /\ int(RawValue(h)).val <= 0 =>
            /\ outcome[h].kind = "return"
            /\ outcome[h].value = DefaultOf(h)

\* get_limit on "-5" under a policy whose min_limit differs from the default
C5_Witness ==
    \E h \in Handlers :
        /\ Done(h) /\ Strategy(h) = "offset" /\ Supplied(h)
        /\ RawValue(h) = <<"-", "5">>
        /\ LimitOffset.min_limit # LimitOffset.default_limit
        /\ outcome[h].value = LimitOffset.default_limit

(***************************************************************************)
(* C6: every raw value that is not a base-10 integer literal yields the    *)
(* policy's default: a purely alphabetic one is rejected by the pre-filter *)
(* before int() is called, any other by the failure of int(); "0.5" is     *)
(* rejected, not truncated.                                                *)
(***************************************************************************)
C6_NonIntegerGivesDefault ==
    \A h \in Handlers :
        Done(h) /\ Supplied(h) =>
            /\ ~IsIntegerLiteral(RawValue(h)) =>
                  outcome[h].kind = "return" /\ outcome[h].value = DefaultOf(h)
            /\ isalpha(RawValue(h)) => outcome[h].path = "isalpha"
            /\ ~IsIntegerLiteral(RawValue(h)) /\ ~isalpha(RawValue(h)) =>
                  outcome[h].path = "ValueError"

\* "0.5" resolved to the default by a policy under which neither 0 nor 1
\* would have given it
C6_Witness ==
    \E h \in Handlers :
        /\ Done(h) /\ Supplied(h) /\ Strategy(h) = "offset"
        /\ RawValue(h) = <<"0", ".", "5">>
        /\ LimitOffset.default_limit > LimitOffset.max_limit
        /\ outcome[h].value = LimitOffset.default_limit

\* the raw input of the call: the value under the configured parameter
\* name as a one-element sequence, <<>> when there is none
RawInput(h) == QueryDict_get(QueryParams(h), ParamName(h))

(***************************************************************************)
(* C7: the page-number and cursor strategies never clamp upward: an        *)
(* admitted override v resolves to at most v, and to what the offset       *)
(* strategy resolves it to under the same maximum and default whenever     *)
(* min_limit is at most 1; a min_limit above 1 does change the offset      *)
(* strategy's result (the witness).                                        *)
(***************************************************************************)
C7_NoUpwardClamp ==
    /\ \A h \in Handlers :
          Done(h) /\ Strategy(h) \in {"page_number", "cursor"}
                  /\ outcome[h].path = "override" =>
              outcome[h].value <= int(RawValue(h)).val
    /\ \A h1, h2 \in Handlers :
          ( /\ Done(h1) /\ Strategy(h1) = "offset"
            /\ Done(h2) /\ Strategy(h2) \in {"page_number", "cursor"}
            /\ RawInput(h1) = RawInput(h2)
            /\ MaximumOf(h1) = MaximumOf(h2)
            /\ DefaultOf(h1) = DefaultOf(h2)
            /\ LimitOffset.min_limit <= 1 )
          => outcome[h1] = outcome[h2]

\* the same raw value v below min_limit: the page-number strategy returns
\* v, the offset strategy returns min_limit
C7_Witness ==
    \E h1, h2 \in Handlers :
        /\ Done(h1) /\ Strategy(h1) = "offset"
        /\ Done(h2) /\ Strategy(h2) = "page_number"
        /\ Supplied(h1) /\ Supplied(h2) /\ RawValue(h1) = RawValue(h2)
        /\ int(RawValue(h2)).exc = ""
        /\ outcome[h2].value = int(RawValue(h2)).val
        /\ outcome[h1].value = LimitOffset.min_limit
        /\ outcome[h2].value < outcome[h1].value

(***************************************************************************)
(* C8: the result depends only on the raw input and the policy: two        *)
(* handlers that resolved the same raw input with the same strategy hold   *)
(* the same result, whatever ran before or in between.                     *)
(***************************************************************************)
C8_SameInputSameResult ==
    \A h1, h2 \in Handlers :
        ( /\ Done(h1) /\ Done(h2)
          /\ Strategy(h1) = Strategy(h2)
          /\ RawInput(h1) = RawInput(h2) )
        => outcome[h1] = outcome[h2]

\* two handlers hold the result of the same admitted override
C8_Witness ==
    \E h1, h2 \in Handlers :
        /\ h1 # h2 /\ Done(h1) /\ Done(h2)
        /\ Strategy(h1) = Strategy(h2)
        /\ RawInput(h1) = RawInput(h2)
        /\ outcome[h1].path = "override"
        /\ outcome[h1].value # DefaultOf(h1)
        /\ outcome[h2] = outcome[h1]

(***************************************************************************)
(* C9: no step changes a policy field, and the cursor strategy's ordering  *)
(* is the configured '-id' throughout.                                     *)
(***************************************************************************)
C9_PolicyUnchanged ==
    /\ [](Cursor.ordering = ordering)
    /\ [][LimitOffset' = LimitOffset /\ PageNumber' = PageNumber /\ Cursor' = Cursor]_vars

\* a cursor resolution returned a value other than page_size, and page_size
\* and ordering are as configured
C9_Witness ==
    \E h \in Handlers :
        /\ Done(h) /\ Strategy(h) = "cursor"
        /\ outcome[h].path = "override"
        /\ outcome[h].value # Cursor.page_size
        /\ Cursor.ordering = "-id"

(***************************************************************************)
(* C10: under every policy, also one that breaks the configuration         *)
(* invariants, the result is the policy's default or a value <= the        *)
(* maximum; when min_limit > max_limit a positive override resolves to     *)
(* max_limit, not to min_limit.                                            *)
(***************************************************************************)
C10_NeverAboveMaximum ==
    \A h \in Handlers :
        Done(h) =>
            /\ outcome[h].value = DefaultOf(h) \/ outcome[h].value <= MaximumOf(h)
            /\ ( /\ Strategy(h) = "offset"
                 /\ LimitOffset.min_limit > LimitOffset.max_limit
                 /\ Supplied(h) /\ int(RawValue(h)).exc = ""
                 /\ int(RawValue(h)).val > 0 )
               => outcome[h].value = LimitOffset.max_limit

\* a positive override under min_limit > max_limit, resolved to max_limit
\* where the default is another value
C10_Witness ==
    \E h \in Handlers :
        /\ Done(h) /\ Strategy(h) = "offset"
        /\ LimitOffset.min_limit > LimitOffset.max_limit
        /\ LimitOffset.default_limit # LimitOffset.max_limit
        /\ outcome[h].path = "override"
        /\ outcome[h].value = LimitOffset.max_limit

====
